---- MODULE Spec2Model ----
\* A state-machine model of the parthial interpreter: the evaluation context
\* (scope chain, resource counters, tracker of live values), the value classes
\* and the core built-ins.  The Python call stack is explicit (stack), one
\* activation record per call of a method of the interpreter, so that every
\* call, return and raise is a step of the model.
EXTENDS Integers, Sequences, FiniteSets, TLC

VARIABLES
  heap,        \* the LispVal objects allocated so far, by identity (1..Len(heap))
  frames,      \* the scope dicts allocated so far, by identity
  globals,     \* Context.globals: name -> object
  scopes,      \* Context.scopes (ChainMap.maps): frame identities, innermost first
  things,      \* Context.things: the tracked objects
  max_things,  \* Context.max_things
  max_depth,   \* EvalContext.max_depth
  max_steps,   \* EvalContext.max_steps
  depth,       \* EvalContext.depth
  steps,       \* EvalContext.steps
  stack,       \* activation records, the innermost call last
  mode,        \* "idle" | "exec" (the top call runs) | "ret" (a value is being
               \* returned to the top call) | "exc" (an exception propagates)
               \* | "loaded" (the loader has ended)
  ret,         \* the value being returned; after a run, its result (0: none)
  err,         \* the exception being raised; after a run, its error
  prog,        \* the name of the script the host submitted last
  runs,        \* how many scripts the host has submitted
  limited,     \* history: a run before the last one ended with a
               \* LimitationError
  returned     \* what the last run returned to the host: << res, things >>
               \* (<< >>: nothing)

vars == << heap, frames, globals, scopes, things, max_things, max_depth,
           max_steps, depth, steps, stack, mode, ret, err, prog, runs,
           limited, returned >>

\* ---------------------------------------------------------------- bounds

\* The host submits at most MaxRuns scripts to one context.
MaxRuns == 2
\* The larger values of the three limits.
DepthHi == 9
StepsHi == 36
ThingsHi == 48
\* The smaller values of max_depth and max_things.
DepthLo == 4
ThingsLo == 10
\* The number of nested calls of rec_new the host language allows.
RecursionLimit == 8

\* ---------------------------------------------------------------- values

\* One record shape for the four classes of vals.py; kind is the class.
Sym(s) ==
  [kind |-> "sym", val |-> s, elems |-> <<>>, pars |-> <<>>, body |-> 0,
   clos |-> <<>>, name |-> "", quotes |-> FALSE]

Lst(es) ==
  [kind |-> "list", val |-> "", elems |-> es, pars |-> <<>>, body |-> 0,
   clos |-> <<>>, name |-> "", quotes |-> FALSE]

LispFunc(pars, body, name, clos) ==
  [kind |-> "func", val |-> "", elems |-> <<>>, pars |-> pars, body |-> body,
   clos |-> clos, name |-> name, quotes |-> FALSE]

LispBuiltin(val, name, quotes) ==
  [kind |-> "builtin", val |-> val, elems |-> <<>>, pars |-> <<>>, body |-> 0,
   clos |-> <<>>, name |-> name, quotes |-> quotes]

\* The registry the built_in decorator fills, in definition order.
built_ins ==
  << LispBuiltin("lisp_eval", "eval", FALSE),
     LispBuiltin("lisp_apply", "apply", FALSE),
     LispBuiltin("lisp_progn", "progn", FALSE),
     LispBuiltin("lisp_quote", "quote", TRUE),
     LispBuiltin("lisp_lambda", "lambda", TRUE),
     LispBuiltin("lisp_set", "set", TRUE),
     LispBuiltin("lisp_if", "if", TRUE),
     LispBuiltin("lisp_cons", "cons", FALSE) >>

\* str.lower on the symbol names the scripts use.
Lower(s) ==
  CASE s = "NO" -> "no"
    [] s = "False" -> "false"
    [] OTHER -> s

FALSES == {"", "false", "no", "off", "0", "null", "undefined", "nan"}

\* __bool__ of each class.
Truthy(o) ==
  CASE o.kind = "sym" -> Lower(o.val) \notin FALSES
    [] o.kind = "list" -> Len(o.elems) > 0
    [] o.kind = "func" -> TRUE
    [] OTHER -> TRUE

\* A fault of the test: every value passes for a callable.
callable_any(o) == TRUE

\* callable(f): the classes that define __call__.
Callable(o) == o.kind \in {"func", "builtin"}

\* ---------------------------------------------------------------- dicts

EmptyDict == [n \in {} |-> 0]

SetKey(d, k, v) == [n \in (DOMAIN d) \cup {k} |-> IF n = k THEN v ELSE d[n]]

Values(d) == {d[n] : n \in DOMAIN d}

Max(S) == CHOOSE m \in S : \A n \in S : n <= m

\* dict(zip(pars, args)): a later duplicate of a parameter name wins.
ZipDict(pars, args) ==
  LET n == IF Len(pars) < Len(args) THEN Len(pars) ELSE Len(args)
  IN  [k \in {pars[i] : i \in 1..n} |->
         args[Max({i \in 1..n : pars[i] = k})]]

\* ChainMap.new_child(m): a new chain with m in front of the same dicts.
new_child(maps, m) == << m >> \o maps

\* ChainMap.__contains__ over Context.scopes.
ChainHas(maps, k) == \E i \in 1..Len(maps) : k \in DOMAIN frames[maps[i]]

\* A fault of the lookup: the chain is searched outermost first.
ChainGetOutermost(maps, k) ==
  frames[maps[Max({i \in 1..Len(maps) : k \in DOMAIN frames[maps[i]]})]][k]

\* ChainMap.__getitem__: the first dict of the chain that has the key.
RECURSIVE ChainGet(_, _)
ChainGet(maps, k) ==
  IF k \in DOMAIN frames[Head(maps)]
    THEN frames[Head(maps)][k]
    ELSE ChainGet(Tail(maps), k)

\* Context.__contains__: ChainMap(self.scopes, self.globals).__contains__(k).
Contains(k) == ChainHas(scopes, k) \/ k \in DOMAIN globals

\* Context.__getitem__: ChainMap(self.scopes, self.globals).__getitem__(k).
GetItem(k) == IF ChainHas(scopes, k) THEN ChainGet(scopes, k) ELSE globals[k]

\* A fault of the assignment: the first dict of the chain that has the key is
\* written, the innermost one only when none has it.
SetItemWhereBound(k, v) ==
  LET binders == {i \in 1..Len(scopes) : k \in DOMAIN frames[scopes[i]]}
      target == IF binders = {} THEN scopes[1]
                ELSE scopes[CHOOSE i \in binders : \A j \in binders : i <= j]
  IN  [frames EXCEPT ![target] = SetKey(@, k, v)]

\* Context.__setitem__: self.scopes.__setitem__(k, val) writes maps[0].
SetItem(k, v) == [frames EXCEPT ![scopes[1]] = SetKey(@, k, v)]

\* ---------------------------------------------------------------- errors

NoErr == [cls |-> "", msg |-> "", arg |-> ""]

LimitationError(msg) == [cls |-> "LimitationError", msg |-> msg, arg |-> ""]

LispError(msg) == [cls |-> "LispError", msg |-> msg, arg |-> ""]

\* LispError('wrong number of args given to {}'.format(name))
ArgCountError(name) ==
  [cls |-> "LispError", msg |-> "wrong number of args given to {}", arg |-> name]

\* LispVal.eval takes no environment: expr.eval(self) on a LispFunc or a
\* LispBuiltin is a TypeError of the host language.
HostTypeError ==
  [cls |-> "TypeError", msg |-> "eval() takes 1 positional argument", arg |-> ""]

\* The host language ends a recursion that is too deep.
HostRecursionError ==
  [cls |-> "RecursionError", msg |-> "maximum recursion depth exceeded",
   arg |-> ""]

\* ---------------------------------------------------------------- scripts

\* Scripts in the order lispify allocates their nodes: the elements of a list
\* before the list, the root last; elems are positions in the script.

\* ((lambda (f) (f f)) (lambda (f) (f f)))
rec_limit_fails ==
  << Sym("lambda"), Sym("f"), Lst(<<2>>), Sym("f"), Sym("f"), Lst(<<4, 5>>),
     Lst(<<1, 3, 6>>), Sym("lambda"), Sym("f"), Lst(<<9>>), Sym("f"),
     Sym("f"), Lst(<<11, 12>>), Lst(<<8, 10, 13>>), Lst(<<7, 14>>) >>

\* (progn (set n (quote a)) (set f (lambda () n)) (set n (quote b)) (f))
shared_set ==
  << Sym("progn"), Sym("set"), Sym("n"), Sym("quote"), Sym("a"),
     Lst(<<4, 5>>), Lst(<<2, 3, 6>>), Sym("set"), Sym("f"), Sym("lambda"),
     Lst(<<>>), Sym("n"), Lst(<<10, 11, 12>>), Lst(<<8, 9, 13>>), Sym("set"),
     Sym("n"), Sym("quote"), Sym("b"), Lst(<<17, 18>>), Lst(<<15, 16, 19>>),
     Sym("f"), Lst(<<21>>), Lst(<<1, 7, 14, 20, 22>>) >>

\* (progn (set n (quote a)) ((lambda (x) (progn (set n x) n)) (quote b)) n)
inner_set ==
  << Sym("progn"), Sym("set"), Sym("n"), Sym("quote"), Sym("a"),
     Lst(<<4, 5>>), Lst(<<2, 3, 6>>), Sym("lambda"), Sym("x"), Lst(<<9>>),
     Sym("progn"), Sym("set"), Sym("n"), Sym("x"), Lst(<<12, 13, 14>>),
     Sym("n"), Lst(<<11, 15, 16>>), Lst(<<8, 10, 17>>), Sym("quote"),
     Sym("b"), Lst(<<19, 20>>), Lst(<<18, 21>>), Sym("n"),
     Lst(<<1, 7, 22, 23>>) >>

\* ((lambda (n) y) ((lambda (n) (lambda () n)) (quote x)))
body_fails ==
  << Sym("lambda"), Sym("n"), Lst(<<2>>), Sym("y"), Lst(<<1, 3, 4>>),
     Sym("lambda"), Sym("n"), Lst(<<7>>), Sym("lambda"), Lst(<<>>), Sym("n"),
     Lst(<<9, 10, 11>>), Lst(<<6, 8, 12>>), Sym("quote"), Sym("x"),
     Lst(<<14, 15>>), Lst(<<13, 16>>), Lst(<<5, 17>>) >>

\* ((lambda (x) x))
wrong_count ==
  << Sym("lambda"), Sym("x"), Lst(<<2>>), Sym("x"), Lst(<<1, 3, 4>>),
     Lst(<<5>>) >>

\* (if (quote NO) y (if (quote x) (quote a) y))
if_both ==
  << Sym("if"), Sym("quote"), Sym("NO"), Lst(<<2, 3>>), Sym("y"), Sym("if"),
     Sym("quote"), Sym("x"), Lst(<<7, 8>>), Sym("quote"), Sym("a"),
     Lst(<<10, 11>>), Sym("y"), Lst(<<6, 9, 12, 13>>), Lst(<<1, 4, 5, 14>>) >>

\* ((cons (quote a) n) y)
cons_n ==
  << Sym("cons"), Sym("quote"), Sym("a"), Lst(<<2, 3>>), Sym("n"),
     Lst(<<1, 4, 5>>), Sym("y"), Lst(<<6, 7>>) >>

\* (apply cons (quote (a (b c))))
apply_cons ==
  << Sym("apply"), Sym("cons"), Sym("quote"), Sym("a"), Sym("b"), Sym("c"),
     Lst(<<5, 6>>), Lst(<<4, 7>>), Lst(<<3, 8>>), Lst(<<1, 2, 9>>) >>

\* (apply (lambda (v) v) (apply quote (quote ((y)))))
apply_ok ==
  << Sym("apply"), Sym("lambda"), Sym("v"), Lst(<<3>>), Sym("v"),
     Lst(<<2, 4, 5>>), Sym("apply"), Sym("quote"), Sym("quote"), Sym("y"),
     Lst(<<10>>), Lst(<<11>>), Lst(<<9, 12>>), Lst(<<7, 8, 13>>),
     Lst(<<1, 6, 14>>) >>

\* (if n (apply cons n) (apply n n))
apply_fail ==
  << Sym("if"), Sym("n"), Sym("apply"), Sym("cons"), Sym("n"),
     Lst(<<3, 4, 5>>), Sym("apply"), Sym("n"), Sym("n"), Lst(<<7, 8, 9>>),
     Lst(<<1, 2, 6, 10>>) >>

\* (eval (lambda () x))
eval_func ==
  << Sym("eval"), Sym("lambda"), Lst(<<>>), Sym("x"), Lst(<<2, 3, 4>>),
     Lst(<<1, 5>>) >>

\* (((lambda () (progn (set x (quote z)) (lambda (v) (eval v))))) (quote x))
cl_eval_test ==
  << Sym("lambda"), Lst(<<>>), Sym("progn"), Sym("set"), Sym("x"),
     Sym("quote"), Sym("z"), Lst(<<6, 7>>), Lst(<<4, 5, 8>>), Sym("lambda"),
     Sym("v"), Lst(<<11>>), Sym("eval"), Sym("v"), Lst(<<13, 14>>),
     Lst(<<10, 12, 15>>), Lst(<<3, 9, 16>>), Lst(<<1, 2, 17>>), Lst(<<18>>),
     Sym("quote"), Sym("x"), Lst(<<20, 21>>), Lst(<<19, 22>>) >>

\* (progn (set n (quote ()))
\*        ((lambda (f n) (f)) ((lambda (n) (lambda () n)) (quote x)) (quote d))
\*        ((lambda (x) x) (quote z)))
closures ==
  << Sym("progn"), Sym("set"), Sym("n"), Sym("quote"), Lst(<<>>),
     Lst(<<4, 5>>), Lst(<<2, 3, 6>>), Sym("lambda"), Sym("f"), Sym("n"),
     Lst(<<9, 10>>), Sym("f"), Lst(<<12>>), Lst(<<8, 11, 13>>),
     Sym("lambda"), Sym("n"), Lst(<<16>>), Sym("lambda"), Lst(<<>>),
     Sym("n"), Lst(<<18, 19, 20>>), Lst(<<15, 17, 21>>), Sym("quote"),
     Sym("x"), Lst(<<23, 24>>), Lst(<<22, 25>>), Sym("quote"), Sym("d"),
     Lst(<<27, 28>>), Lst(<<14, 26, 29>>), Sym("lambda"), Sym("x"),
     Lst(<<32>>), Sym("x"), Lst(<<31, 33, 34>>), Sym("quote"), Sym("z"),
     Lst(<<36, 37>>), Lst(<<35, 38>>), Lst(<<1, 7, 30, 39>>) >>

Scripts ==
  { [name |-> "rec_limit_fails", code |-> rec_limit_fails],
    [name |-> "shared_set", code |-> shared_set],
    [name |-> "inner_set", code |-> inner_set],
    [name |-> "body_fails", code |-> body_fails],
    [name |-> "wrong_count", code |-> wrong_count],
    [name |-> "if_both", code |-> if_both],
    [name |-> "cons_n", code |-> cons_n],
    [name |-> "apply_cons", code |-> apply_cons],
    [name |-> "apply_ok", code |-> apply_ok],
    [name |-> "apply_fail", code |-> apply_fail],
    [name |-> "eval_func", code |-> eval_func],
    [name |-> "cl_eval_test", code |-> cl_eval_test],
    [name |-> "closures", code |-> closures] }

\* lispify: fresh objects for the nodes of a script, after the base objects
\* already allocated.
lispify(code, base) ==
  [i \in 1..Len(code) |->
     [code[i] EXCEPT !.elems = [j \in 1..Len(@) |-> @[j] + base]]]

\* ---------------------------------------------------------------- calls

\* An activation record.  fn: the method; pc: where it stands; x: the value it
\* works on; f, args: the callable and the arguments of a call; vals: the
\* arguments evaluated so far; old_scopes: what scopes_as saved; clos_scopes:
\* what new_scope saved; arg_scope: the dict of the arguments; log: the
\* expressions this call passed to env.eval; depth_in, steps_in: the counters
\* when the call was made.
Call(fn, x, f, args) ==
  [fn |-> fn, pc |-> "enter", x |-> x, f |-> f, args |-> args, vals |-> <<>>,
   i |-> 0, old_scopes |-> <<>>, clos_scopes |-> <<>>, arg_scope |-> 0,
   log |-> <<>>, depth_in |-> 0, steps_in |-> 0]

Top == stack[Len(stack)]

Pop == SubSeq(stack, 1, Len(stack) - 1)

\* The stack with the top record changed to r and the call c pushed on it.
PushOn(r, c) == Append(Append(Pop, r), c)

SetTop(r) == Append(Pop, r)

Running(fn, pc, m) ==
  /\ stack # <<>>
  /\ mode = m
  /\ Top.fn = fn
  /\ Top.pc = pc

\* The limits of a session: roomy ones; a nesting limit that rec_limit_fails
\* reaches on the very call that also exhausts the steps; few things.
Limits ==
  { [d |-> DepthHi, s |-> StepsHi, t |-> ThingsHi],
    [d |-> DepthLo, s |-> 3 * DepthLo, t |-> ThingsHi],
    [d |-> DepthHi, s |-> StepsHi, t |-> ThingsLo] }

\* EvalContext.__init__ with the built-ins as globals, as test() builds it.
Init ==
  /\ heap = built_ins
  /\ frames = << EmptyDict >>
  /\ globals = [n \in {built_ins[i].name : i \in 1..Len(built_ins)} |->
                  CHOOSE i \in 1..Len(built_ins) : built_ins[i].name = n]
  /\ scopes = << 1 >>
  /\ things = {}
  /\ \E l \in Limits :
       /\ max_depth = l.d
       /\ max_steps = l.s
       /\ max_things = l.t
  /\ depth = 0
  /\ steps = 0
  /\ stack = <<>>
  /\ mode = "idle"
  /\ ret = 0
  /\ err = NoErr
  /\ prog = ""
  /\ runs = 0
  /\ limited = FALSE
  /\ returned = << >>

ctx_limits == << max_things, max_depth, max_steps >>

host == << prog, runs, limited, returned >>

\* raise e: the exception starts to propagate from the top call.
Raise(e) ==
  /\ mode' = "exc"
  /\ err' = e
  /\ ret' = 0
  /\ stack' = stack

\* return v from the top call.
Return(v) ==
  /\ mode' = "ret"
  /\ ret' = v
  /\ err' = err
  /\ stack' = Pop

\* The top call, changed to r, calls c.
Enter(r, c) ==
  /\ mode' = "exec"
  /\ ret' = 0
  /\ err' = err
  /\ stack' = PushOn(r, c)

\* The top call, changed to r, calls env.eval(e).
CallEval(r, e) ==
  Enter([r EXCEPT !.log = Append(@, e)],
        [Call("eval", e, 0, <<>>) EXCEPT !.depth_in = depth,
                                         !.steps_in = steps])

\* ---------------------------------------------------------------- tracker

RECURSIVE SetToSeq(_)
SetToSeq(S) ==
  IF S = {} THEN <<>>
  ELSE LET x == CHOOSE y \in S : TRUE IN << x >> \o SetToSeq(S \ {x})

\* ChainMap.values(): the bindings visible through the chain.
ChainValues(maps) ==
  LET keys == UNION {DOMAIN frames[maps[i]] : i \in 1..Len(maps)}
      ks == SetToSeq(keys)
  IN  [i \in 1..Len(ks) |-> ChainGet(maps, ks[i])]

\* A fault of LispFunc.children: the captured values are left out.
children_body_only(o) ==
  CASE o.kind = "list" -> o.elems
    [] o.kind = "func" -> << o.body >>
    [] OTHER -> <<>>

\* children() of each class.
Children(o) ==
  CASE o.kind = "list" -> o.elems
    [] o.kind = "func" -> << o.body >> \o ChainValues(o.clos)
    [] OTHER -> <<>>

\* A fault of the quota test: one value late.
new_refused_late == Cardinality(things) > max_things

\* Context.new: the test that refuses a value.
new_refused == Cardinality(things) >= max_things

\* Context.new: the tracker after val was added.
new_added(val) == things \cup {val}

\* The call rec_new(val): val.children() is taken on entry.
RecNewCall(val, kids) ==
  [Call("rec_new", val, 0, kids) EXCEPT !.pc = "loop"]

\* EvalContext.run / eval_in_new: the host submits a script; rec_new(expr) first.
run(p) ==
  /\ mode = "idle"
  /\ runs < MaxRuns
  /\ LET code == lispify(p.code, Len(heap))
         root == Len(heap) + Len(code)
     IN  /\ heap' = heap \o code
         /\ stack' = << [Call("run", root, 0, <<>>)
                           EXCEPT !.pc = "rec_new", !.depth_in = depth,
                                  !.steps_in = steps],
                        RecNewCall(root, Children(code[Len(code)])) >>
  /\ mode' = "exec"
  /\ ret' = 0
  /\ err' = NoErr
  /\ prog' = p.name
  /\ runs' = runs + 1
  /\ limited' = (limited \/ err.cls = "LimitationError")
  /\ returned' = << >>
  /\ UNCHANGED << frames, globals, scopes, things, ctx_limits, depth, steps >>

\* The calls of rec_new in progress.
rec_new_depth == Cardinality({i \in 1..Len(stack) : stack[i].fn = "rec_new"})

\* Context.rec_new, the loop: rec_new(child) for the next child.
rec_new_child ==
  /\ stack # <<>>
  /\ Top.fn = "rec_new"
  /\ mode \in {"exec", "ret"}
  /\ Top.i < Len(Top.args)
  /\ LET child == Top.args[Top.i + 1]
     IN  IF rec_new_depth >= RecursionLimit
           THEN Raise(HostRecursionError)
           ELSE Enter([Top EXCEPT !.i = @ + 1],
                      RecNewCall(child, Children(heap[child])))
  /\ UNCHANGED << heap, frames, globals, scopes, things, ctx_limits, depth,
                  steps, host >>

\* Context.rec_new after the loop: self.new(val); return val.
rec_new_self ==
  /\ stack # <<>>
  /\ Top.fn = "rec_new"
  /\ mode \in {"exec", "ret"}
  /\ Top.i = Len(Top.args)
  /\ IF new_refused
       THEN /\ Raise(LimitationError("too many things"))
            /\ things' = things
       ELSE /\ Return(Top.x)
            /\ things' = new_added(Top.x)
  /\ UNCHANGED << heap, frames, globals, scopes, ctx_limits, depth, steps,
                  host >>

\* A fault of run: an error of rec_new is dropped and expr evaluated anyway.
run_eval_regardless ==
  /\ stack # <<>>
  /\ Top.fn = "run"
  /\ Top.pc = "rec_new"
  /\ mode \in {"ret", "exc"}
  /\ CallEval([Top EXCEPT !.pc = "eval"], Top.x)
  /\ UNCHANGED << heap, frames, globals, scopes, things, ctx_limits, depth,
                  steps, host >>

\* run, after rec_new returned: self.eval(expr).
run_eval ==
  /\ Running("run", "rec_new", "ret")
  /\ CallEval([Top EXCEPT !.pc = "eval"], Top.x)
  /\ UNCHANGED << heap, frames, globals, scopes, things, ctx_limits, depth,
                  steps, host >>

\* return res, self.things: the pair the host gets; its second component is
\* the tracker, here with what it holds when run returns.
result_and_things == << ret, things >>

\* run returns to the host.
run_return ==
  /\ Running("run", "eval", "ret")
  /\ stack' = <<>>
  /\ mode' = "idle"
  /\ returned' = result_and_things
  /\ UNCHANGED << heap, frames, globals, scopes, things, ctx_limits, depth,
                  steps, ret, err, prog, runs, limited >>

\* An exception leaves the top call: no method of the interpreter catches one,
\* and none has a finally clause, so nothing else changes.
unwind ==
  /\ mode = "exc"
  /\ stack # <<>>
  /\ stack' = Pop
  /\ mode' = IF Len(stack) > 1 THEN "exc"
             ELSE IF Top.fn = "_load_context" THEN "loaded" ELSE "idle"
  /\ UNCHANGED << heap, frames, globals, scopes, things, ctx_limits, depth,
                  steps, ret, err, host >>

\* ---------------------------------------------------------------- eval

\* Faults of the limit tests: the nesting test one call late, the step test
\* one call late, the step test left out.
nesting_test_late == depth > max_depth

step_test_late == steps > max_steps

step_test_dropped == FALSE

\* EvalContext.eval: the two tests that refuse a call.
too_much_nesting == depth >= max_depth

too_many_steps == steps >= max_steps

\* self.depth += 1
depth_incr == depth + 1

\* A fault of the count: the step is not counted.
steps_not_counted == steps

\* self.steps += 1
steps_incr == steps + 1

\* EvalContext.eval up to the call of expr.eval.
eval_enter ==
  /\ Running("eval", "enter", "exec")
  /\ IF too_much_nesting
       THEN /\ Raise(LimitationError("too much nesting"))
            /\ UNCHANGED << depth, steps >>
       ELSE IF too_many_steps
         THEN /\ Raise(LimitationError("too many steps"))
              /\ UNCHANGED << depth, steps >>
         ELSE /\ depth' = depth_incr
              /\ steps' = steps_incr
              /\ stack' = SetTop([Top EXCEPT !.pc = "body"])
              /\ UNCHANGED << mode, ret, err >>
  /\ UNCHANGED << heap, frames, globals, scopes, things, ctx_limits, host >>

\* A fault of the return: the depth is left as it is.
depth_not_restored == depth

\* self.depth -= 1
depth_decr == depth - 1

\* EvalContext.eval after expr.eval returned: self.depth -= 1; return res.
eval_exit ==
  /\ Running("eval", "exit", "ret")
  /\ depth' = depth_decr
  /\ Return(ret)
  /\ UNCHANGED << heap, frames, globals, scopes, things, ctx_limits, steps,
                  host >>

\* The result res of expr.eval is ready in the call of EvalContext.eval.
Result(res) ==
  /\ mode' = "ret"
  /\ ret' = res
  /\ err' = err
  /\ stack' = SetTop([Top EXCEPT !.pc = "exit"])

\* LispSymbol.eval.
LispSymbol_eval ==
  /\ Running("eval", "body", "exec")
  /\ heap[Top.x].kind = "sym"
  /\ IF Contains(heap[Top.x].val)
       THEN Result(GetItem(heap[Top.x].val))
       ELSE Raise(LispError("nonexistent variable"))
  /\ UNCHANGED << heap, frames, globals, scopes, things, ctx_limits, depth,
                  steps, host >>

\* LispVal.eval(self) called as expr.eval(env), on a LispFunc or LispBuiltin.
LispVal_eval ==
  /\ Running("eval", "body", "exec")
  /\ heap[Top.x].kind \in {"func", "builtin"}
  /\ Raise(HostTypeError)
  /\ UNCHANGED << heap, frames, globals, scopes, things, ctx_limits, depth,
                  steps, host >>

\* f(args, env): the call of a LispFunc or of the function of a LispBuiltin.
Invoke(f, args) ==
  Call(IF heap[f].kind = "func" THEN "LispFunc" ELSE heap[f].val, 0, f, args)

\* LispList.eval: the empty list, or f = env.eval(self.val[0]).
LispList_eval ==
  /\ Running("eval", "body", "exec")
  /\ heap[Top.x].kind = "list"
  /\ IF Truthy(heap[Top.x])
       THEN CallEval([Top EXCEPT !.pc = "head"], heap[Top.x].elems[1])
       ELSE Result(Top.x)
  /\ UNCHANGED << heap, frames, globals, scopes, things, ctx_limits, depth,
                  steps, host >>

\* LispList.eval after the head: callable(f), f.quotes, the first argument.
LispList_head ==
  /\ Running("eval", "head", "ret")
  /\ LET args == Tail(heap[Top.x].elems)
         r == [Top EXCEPT !.f = ret, !.args = args]
     IN  IF ~Callable(heap[ret])
           THEN Raise(LispError("non-callable value in application"))
           ELSE IF heap[ret].quotes \/ args = <<>>
             THEN Enter([r EXCEPT !.pc = "exit"], Invoke(ret, args))
             ELSE CallEval([r EXCEPT !.pc = "args", !.i = 1], args[1])
  /\ UNCHANGED << heap, frames, globals, scopes, things, ctx_limits, depth,
                  steps, host >>

\* LispList.eval, list(map(env.eval, args)): the next argument, then f(args, env).
LispList_arg ==
  /\ Running("eval", "args", "ret")
  /\ LET r == [Top EXCEPT !.vals = Append(@, ret)]
     IN  IF Top.i < Len(Top.args)
           THEN CallEval([r EXCEPT !.i = @ + 1], Top.args[Top.i + 1])
           ELSE Enter([r EXCEPT !.pc = "exit"], Invoke(Top.f, r.vals))
  /\ UNCHANGED << heap, frames, globals, scopes, things, ctx_limits, depth,
                  steps, host >>

\* return f(...) / return env.eval(...): the callee's result is the caller's.
tail_return ==
  /\ stack # <<>>
  /\ mode = "ret"
  /\ Top.pc = "tail"
  /\ Return(ret)
  /\ UNCHANGED << heap, frames, globals, scopes, things, ctx_limits, depth,
                  steps, host >>

\* ---------------------------------------------------------------- closures

\* A fault of the count test: too few arguments pass.
count_too_many(f, args) == Len(args) > Len(f.pars)

\* LispFunc.__call__: len(args) != len(self.pars).
count_mismatch(f, args) == Len(args) # Len(f.pars)

\* A fault of the call: arg_scope is put in front of the caller's chain.
body_scopes_dynamic(f, arg_scope) == new_child(scopes, arg_scope)

\* The chain the body of f is evaluated in: scopes_as(self.clos) installs the
\* captured chain, new_scope(arg_scope) puts arg_scope in front of it.
body_scopes(f, arg_scope) == new_child(f.clos, arg_scope)

\* LispFunc.__call__ up to the call of env.eval(self.body): the count test,
\* arg_scope, then the with statement: scopes_as(self.clos) saves the caller's
\* chain and installs the captured one, new_scope(arg_scope) saves that and
\* installs the chain with arg_scope in front.
LispFunc_call ==
  /\ Running("LispFunc", "enter", "exec")
  /\ LET f == heap[Top.f]
         arg_scope == Len(frames) + 1
     IN  IF count_mismatch(f, Top.args)
           THEN /\ Raise(ArgCountError(f.name))
                /\ UNCHANGED << frames, scopes >>
           ELSE /\ frames' = Append(frames, ZipDict(f.pars, Top.args))
                /\ scopes' = body_scopes(f, arg_scope)
                /\ CallEval([Top EXCEPT !.pc = "body", !.old_scopes = scopes,
                                        !.clos_scopes = f.clos,
                                        !.arg_scope = arg_scope], f.body)
  /\ UNCHANGED << heap, globals, things, ctx_limits, depth, steps, host >>

\* The chain the two with blocks leave when they exit without an exception:
\* new_scope puts back the captured chain, then scopes_as the caller's.
scopes_restored(r) == r.old_scopes

\* LispFunc.__call__ after env.eval(self.body) returned.
LispFunc_return ==
  /\ Running("LispFunc", "body", "ret")
  /\ scopes' = scopes_restored(Top)
  /\ Return(ret)
  /\ UNCHANGED << heap, frames, globals, things, ctx_limits, depth, steps,
                  host >>

\* ---------------------------------------------------------------- built-ins

\* A fault of lisp_eval: the argument is evaluated at top level, with only the
\* outermost dict of the chain visible.
lisp_eval_outermost ==
  /\ Running("lisp_eval", "enter", "exec")
  /\ IF Len(Top.args) # 1
       THEN /\ Raise(ArgCountError("eval"))
            /\ scopes' = scopes
       ELSE /\ CallEval([Top EXCEPT !.pc = "tail"], Top.args[1])
            /\ scopes' = << scopes[Len(scopes)] >>
  /\ UNCHANGED << heap, frames, globals, things, ctx_limits, depth, steps,
                  host >>

\* lisp_eval: the count test, then return env.eval(args[0]), in the chain the
\* environment has at this point.
lisp_eval ==
  /\ Running("lisp_eval", "enter", "exec")
  /\ IF Len(Top.args) # 1
       THEN Raise(ArgCountError("eval"))
       ELSE CallEval([Top EXCEPT !.pc = "tail"], Top.args[1])
  /\ UNCHANGED << heap, frames, globals, scopes, things, ctx_limits, depth,
                  steps, host >>

\* A fault of lisp_apply: the test of the second argument is left out.
lisp_apply_unchecked ==
  /\ Running("lisp_apply", "enter", "exec")
  /\ IF Len(Top.args) # 2
       THEN Raise(ArgCountError("apply"))
       ELSE IF ~Callable(heap[Top.args[1]])
         THEN Raise(LispError("non-callable value in application"))
         ELSE Enter([Top EXCEPT !.pc = "tail"],
                    Invoke(Top.args[1], heap[Top.args[2]].elems))
  /\ UNCHANGED << heap, frames, globals, scopes, things, ctx_limits, depth,
                  steps, host >>

\* lisp_apply: the count test, the two type tests, then return f(xs.val, env).
lisp_apply ==
  /\ Running("lisp_apply", "enter", "exec")
  /\ IF Len(Top.args) # 2
       THEN Raise(ArgCountError("apply"))
       ELSE IF ~Callable(heap[Top.args[1]])
         THEN Raise(LispError("non-callable value in application"))
         ELSE IF heap[Top.args[2]].kind # "list"
           THEN Raise(LispError("second argument to apply not a list"))
           ELSE Enter([Top EXCEPT !.pc = "tail"],
                      Invoke(Top.args[1], heap[Top.args[2]].elems))
  /\ UNCHANGED << heap, frames, globals, scopes, things, ctx_limits, depth,
                  steps, host >>

lisp_progn ==
  /\ Running("lisp_progn", "enter", "exec")
  /\ IF Top.args = <<>>
       THEN Raise(LispError("no args given to progn"))
       ELSE Return(Top.args[Len(Top.args)])
  /\ UNCHANGED << heap, frames, globals, scopes, things, ctx_limits, depth,
                  steps, host >>

\* A fault of lisp_quote: the argument is evaluated.
lisp_quote_evals ==
  /\ Running("lisp_quote", "enter", "exec")
  /\ IF Len(Top.args) # 1
       THEN Raise(ArgCountError("quote"))
       ELSE CallEval([Top EXCEPT !.pc = "tail"], Top.args[1])
  /\ UNCHANGED << heap, frames, globals, scopes, things, ctx_limits, depth,
                  steps, host >>

lisp_quote ==
  /\ Running("lisp_quote", "enter", "exec")
  /\ IF Len(Top.args) # 1
       THEN Raise(ArgCountError("quote"))
       ELSE Return(Top.args[1])
  /\ UNCHANGED << heap, frames, globals, scopes, things, ctx_limits, depth,
                  steps, host >>

\* A fault of the capture: the innermost dict is dropped from the chain the
\* closure keeps.
lambda_clos_popped == Tail(scopes)

\* A fault of the capture: only the outermost dict is kept, the argument
\* frames of the calls in progress are not.
lambda_clos_outermost == << scopes[Len(scopes)] >>

\* clos = env.scopes.new_child(); clos.maps.pop(0): a new chain of the same
\* dicts as the current one (0 stands for the dict new_child made and pop drops).
lambda_clos == Tail(new_child(scopes, 0))

\* lisp_lambda; the LispFunc is built before env.new tests the quota.
lisp_lambda ==
  /\ Running("lisp_lambda", "enter", "exec")
  /\ IF Len(Top.args) # 2
       THEN /\ Raise(ArgCountError("lambda"))
            /\ UNCHANGED << heap, things >>
       ELSE LET pars == heap[Top.args[1]]
                body == Top.args[2]
            IN  IF pars.kind # "list"
                  THEN /\ Raise(LispError("first argument to lambda not a list"))
                       /\ UNCHANGED << heap, things >>
                  ELSE IF \E i \in 1..Len(pars.elems) :
                            heap[pars.elems[i]].kind # "sym"
                    THEN /\ Raise(LispError(
                                "first argument to lambda not a list of symbols"))
                         /\ UNCHANGED << heap, things >>
                    ELSE /\ heap' = Append(heap, LispFunc(
                                [i \in 1..Len(pars.elems) |->
                                   heap[pars.elems[i]].val],
                                body, "anonymous function", lambda_clos))
                         /\ IF new_refused
                              THEN /\ Raise(LimitationError("too many things"))
                                   /\ things' = things
                              ELSE /\ Return(Len(heap) + 1)
                                   /\ things' = new_added(Len(heap) + 1)
  /\ UNCHANGED << frames, globals, scopes, ctx_limits, depth, steps, host >>

\* lisp_set up to val = env.eval(val).
lisp_set ==
  /\ Running("lisp_set", "enter", "exec")
  /\ IF Len(Top.args) # 2
       THEN Raise(ArgCountError("set"))
       ELSE IF heap[Top.args[1]].kind # "sym"
         THEN Raise(LispError("first argument to set not a symbol"))
         ELSE CallEval([Top EXCEPT !.pc = "assign"], Top.args[2])
  /\ UNCHANGED << heap, frames, globals, scopes, things, ctx_limits, depth,
                  steps, host >>

\* lisp_set: env[name.val] = val; return val.
lisp_set_assign ==
  /\ Running("lisp_set", "assign", "ret")
  /\ frames' = SetItem(heap[Top.args[1]].val, ret)
  /\ Return(ret)
  /\ UNCHANGED << heap, globals, scopes, things, ctx_limits, depth, steps,
                  host >>

\* lisp_if up to cond = env.eval(cond).
lisp_if ==
  /\ Running("lisp_if", "enter", "exec")
  /\ IF Len(Top.args) # 3
       THEN Raise(ArgCountError("if"))
       ELSE CallEval([Top EXCEPT !.pc = "cond"], Top.args[1])
  /\ UNCHANGED << heap, frames, globals, scopes, things, ctx_limits, depth,
                  steps, host >>

\* A fault of lisp_if: the branches are swapped.
if_branch_swapped(args, cond) ==
  IF Truthy(heap[cond]) THEN args[3] ELSE args[2]

\* The branch lisp_if takes for the value cond of its condition.
if_branch(args, cond) == IF Truthy(heap[cond]) THEN args[2] ELSE args[3]

\* lisp_if: if cond: return env.eval(i) else: return env.eval(t).
lisp_if_branch ==
  /\ Running("lisp_if", "cond", "ret")
  /\ CallEval([Top EXCEPT !.pc = "tail", !.vals = << ret >>],
              if_branch(Top.args, ret))
  /\ UNCHANGED << heap, frames, globals, scopes, things, ctx_limits, depth,
                  steps, host >>

\* A fault of lisp_cons: the test of the second argument is left out.
lisp_cons_unchecked ==
  /\ Running("lisp_cons", "enter", "exec")
  /\ IF Len(Top.args) # 2
       THEN /\ Raise(ArgCountError("cons"))
            /\ UNCHANGED << heap, things >>
       ELSE /\ heap' = Append(heap,
                   Lst(<< Top.args[1] >> \o heap[Top.args[2]].elems))
            /\ IF new_refused
                 THEN /\ Raise(LimitationError("too many things"))
                      /\ things' = things
                 ELSE /\ Return(Len(heap) + 1)
                      /\ things' = new_added(Len(heap) + 1)
  /\ UNCHANGED << frames, globals, scopes, ctx_limits, depth, steps, host >>

\* lisp_cons; the LispList is built before env.new tests the quota.
lisp_cons ==
  /\ Running("lisp_cons", "enter", "exec")
  /\ IF Len(Top.args) # 2
       THEN /\ Raise(ArgCountError("cons"))
            /\ UNCHANGED << heap, things >>
       ELSE IF heap[Top.args[2]].kind # "list"
         THEN /\ Raise(LispError("second argument to cons not a list"))
              /\ UNCHANGED << heap, things >>
         ELSE /\ heap' = Append(heap,
                   Lst(<< Top.args[1] >> \o heap[Top.args[2]].elems))
              /\ IF new_refused
                   THEN /\ Raise(LimitationError("too many things"))
                        /\ things' = things
                   ELSE /\ Return(Len(heap) + 1)
                        /\ things' = new_added(Len(heap) + 1)
  /\ UNCHANGED << frames, globals, scopes, ctx_limits, depth, steps, host >>

\* ---------------------------------------------------------------- weak set

Range(s) == {s[i] : i \in 1..Len(s)}

\* The objects a set of dicts binds.
Bound(fs) == UNION {Values(frames[f]) : f \in fs}

\* The objects an object refers to.
Refs(o) ==
  CASE heap[o].kind = "list" -> Range(heap[o].elems)
    [] heap[o].kind = "func" -> {heap[o].body} \cup Bound(Range(heap[o].clos))
    [] OTHER -> {}

RECURSIVE Reach(_)
Reach(S) ==
  LET N == S \cup UNION {Refs(o) : o \in S}
  IN  IF N = S THEN S ELSE Reach(N)

\* The objects the context, the calls in progress and the host refer to.
Roots ==
  LET held(r) == ({r.x, r.f} \cup Range(r.args) \cup Range(r.vals)
                    \cup Bound(Range(r.old_scopes) \cup Range(r.clos_scopes)))
  IN  (Values(globals) \cup Bound(Range(scopes)) \cup {ret}
         \cup UNION {held(stack[i]) : i \in 1..Len(stack)}) \ {0}

Live == Reach(Roots)

\* things is a WeakSet: the entry of an object nothing refers to any more
\* lapses when the runtime reclaims the object, at a time the program does not
\* choose.
reclaim ==
  /\ things \ Live # {}
  /\ things' = things \cap Live
  /\ UNCHANGED << heap, frames, globals, scopes, ctx_limits, depth, steps,
                  stack, mode, ret, err, host >>

\* ---------------------------------------------------------------- loader

\* _load_context: the host has dumped the session (its scopes and max_things)
\* and loads it again.  env = Environment(globals, d['max_things']) has an
\* empty tracker, env.scopes = d['scopes'] the chain of the session; the loop
\* runs over env.scopes.values().  What the last run returned went with the
\* session that was dumped.  The loaded session is an Environment, which
\* takes the place of the session: mode "loaded" is its final state.
load ==
  /\ mode = "idle"
  /\ things' = {}
  /\ stack' = << [Call("_load_context", 0, 0, ChainValues(scopes))
                    EXCEPT !.pc = "loop"] >>
  /\ mode' = "exec"
  /\ ret' = 0
  /\ err' = NoErr
  /\ returned' = << >>
  /\ UNCHANGED << heap, frames, globals, scopes, ctx_limits, depth, steps,
                  prog, runs, limited >>

\* _load_context, the loop: env.rec_new(v) for the next value.
load_rec_new ==
  /\ stack # <<>>
  /\ Top.fn = "_load_context"
  /\ mode \in {"exec", "ret"}
  /\ Top.i < Len(Top.args)
  /\ LET v == Top.args[Top.i + 1]
     IN  Enter([Top EXCEPT !.i = @ + 1], RecNewCall(v, Children(heap[v])))
  /\ UNCHANGED << heap, frames, globals, scopes, things, ctx_limits, depth,
                  steps, host >>

\* _load_context after the loop: return env.
load_return ==
  /\ stack # <<>>
  /\ Top.fn = "_load_context"
  /\ mode \in {"exec", "ret"}
  /\ Top.i = Len(Top.args)
  /\ stack' = <<>>
  /\ mode' = "loaded"
  /\ ret' = 0
  /\ UNCHANGED << heap, frames, globals, scopes, things, ctx_limits, depth,
                  steps, err, host >>

\* ---------------------------------------------------------------- system

Next ==
  \/ \E p \in Scripts : run(p)
  \/ rec_new_child
  \/ rec_new_self
  \/ run_eval
  \/ run_return
  \/ unwind
  \/ eval_enter
  \/ eval_exit
  \/ LispSymbol_eval
  \/ LispVal_eval
  \/ LispList_eval
  \/ LispList_head
  \/ LispList_arg
  \/ tail_return
  \/ LispFunc_call
  \/ LispFunc_return
  \/ lisp_eval
  \/ lisp_apply
  \/ lisp_progn
  \/ lisp_quote
  \/ lisp_lambda
  \/ lisp_set
  \/ lisp_set_assign
  \/ lisp_if
  \/ lisp_if_branch
  \/ lisp_cons
  \/ load
  \/ load_rec_new
  \/ load_return
  \/ reclaim

Spec == Init /\ [][Next]_vars

\* The interpreter is one synchronous call chain: a call in progress takes its
\* next step.
Exec ==
  \/ rec_new_child
  \/ rec_new_self
  \/ run_eval
  \/ run_return
  \/ unwind
  \/ eval_enter
  \/ eval_exit
  \/ LispSymbol_eval
  \/ LispVal_eval
  \/ LispList_eval
  \/ LispList_head
  \/ LispList_arg
  \/ tail_return
  \/ LispFunc_call
  \/ LispFunc_return
  \/ lisp_eval
  \/ lisp_apply
  \/ lisp_progn
  \/ lisp_quote
  \/ lisp_lambda
  \/ lisp_set
  \/ lisp_set_assign
  \/ lisp_if
  \/ lisp_if_branch
  \/ lisp_cons
  \/ load_rec_new
  \/ load_return

FairSpec == Spec /\ WF_vars(Exec)

\* ---------------------------------------------------------------- properties

\* The run of script n has ended, and not by exhausting a resource limit.
Ended(n) == mode = "idle" /\ prog = n /\ err.cls # "LimitationError"

StepLimit == LimitationError("too many steps")

NestingLimit == LimitationError("too much nesting")

ThingLimit == LimitationError("too many things")

\* A call of EvalContext.eval is refused with e: the exception is raised from
\* the call itself, before expr.eval is called, and the counters stay.
Refused(e) ==
  /\ mode' = "exc"
  /\ err' = e
  /\ stack' = stack
  /\ UNCHANGED << depth, steps >>

\* C1: every run ends, with a value or with an error, and never with more
\* than max_steps accepted eval calls; the run of
\* ((lambda (f) (f f)) (lambda (f) (f f))) on a fresh context ends with a
\* resource-limit error.
C1_RunTerminates ==
  /\ [](steps <= max_steps)
  /\ []((mode = "idle" /\ runs > 0) => (ret # 0) # (err # NoErr))
  /\ []((mode = "idle" /\ runs = 1 /\ prog = "rec_limit_fails")
          => err.cls = "LimitationError")
  /\ (mode \notin {"idle", "loaded"}) ~> (mode \in {"idle", "loaded"})

C1_Witness ==
  /\ mode = "idle"
  /\ runs = 1
  /\ prog = "rec_limit_fails"
  /\ err = NestingLimit
  /\ steps < max_steps

\* C2 as stated: steps never exceeds max_steps, and every eval call made while
\* steps >= max_steps is refused with the step-limit error.
C2_StepLimitAlways ==
  /\ [](steps <= max_steps)
  /\ [][(eval_enter /\ steps >= max_steps) => Refused(StepLimit)]_vars

\* C2 as amended: steps never exceeds max_steps; an eval call made while
\* steps >= max_steps and depth < max_depth is refused with the step-limit
\* error; one made while depth >= max_depth as well is refused with the
\* nesting-limit error, the test that comes first.
C2_StepLimit ==
  /\ [](steps <= max_steps)
  /\ [][(eval_enter /\ steps >= max_steps /\ depth < max_depth)
          => Refused(StepLimit)]_vars
  /\ [][(eval_enter /\ steps >= max_steps /\ depth >= max_depth)
          => Refused(NestingLimit)]_vars

C2_Witness ==
  /\ Running("eval", "enter", "exc")
  /\ err = StepLimit
  /\ steps = max_steps
  /\ depth < max_depth

\* C3: depth never exceeds max_depth, and every eval call made while
\* depth >= max_depth is refused with the nesting-limit error.
C3_NestingLimit ==
  /\ [](depth <= max_depth)
  /\ [][(eval_enter /\ depth >= max_depth) => Refused(NestingLimit)]_vars

C3_Witness ==
  /\ Running("eval", "enter", "exc")
  /\ err = NestingLimit
  /\ depth = max_depth

\* The call of a closure on top of the stack, its body entered, ends.
ClosureCallEnds ==
  /\ stack # <<>>
  /\ Top.fn = "LispFunc"
  /\ Top.pc = "body"
  /\ stack' = Pop

\* C4: when a closure call ends, by a return or by an error raised in the
\* body, the visible chain is the chain the caller had before the call.
C4_ScopesRestored ==
  [][ClosureCallEnds => scopes' = Top.old_scopes]_vars

\* The step is a call of Context.new.
NewCalled == rec_new_self \/ (lisp_lambda /\ heap' # heap)
               \/ (lisp_cons /\ heap' # heap)

\* The value a call of Context.new is given.
NewVal == IF Top.fn = "rec_new" THEN Top.x ELSE Len(heap) + 1

\* C5: the tracker never holds more than max_things values; new(val) on a
\* full tracker raises the resource-limit error and adds nothing, otherwise it
\* adds val and returns it.
C5_ThingsBounded ==
  /\ [](Cardinality(things) <= max_things)
  /\ [][NewCalled =>
          IF Cardinality(things) >= max_things
            THEN mode' = "exc" /\ err' = ThingLimit /\ things' = things
            ELSE /\ mode' = "ret"
                 /\ ret' = NewVal
                 /\ things' = things \cup {NewVal}]_vars

C5_Witness ==
  /\ mode = "exc"
  /\ err = ThingLimit
  /\ Cardinality(things) = max_things
  /\ Top.fn = "lisp_lambda"

\* C6: a closure captures the frames of the chain it is created in, not
\* copies: (progn (set n (quote a)) (set f (lambda () n)) (set n (quote b)) (f))
\* returns the Symbol b.
C6_SharedFrames ==
  /\ [](Ended("shared_set") =>
          /\ err = NoErr
          /\ ret # 0
          /\ heap[ret].kind = "sym"
          /\ heap[ret].val = "b")
  /\ [][(lisp_lambda /\ heap' # heap)
          => heap'[Len(heap')].clos = scopes]_vars

C6_Witness ==
  /\ mode = "idle"
  /\ prog = "shared_set"
  /\ ret # 0
  /\ heap[ret].val = "b"
  /\ \E o \in 1..Len(heap) :
       /\ heap[o].kind = "func"
       /\ heap[o].clos = scopes
       /\ frames[scopes[1]]["f"] = o
       /\ frames[scopes[1]]["n"] = ret

\* C7: an assignment binds the name in the innermost frame of the visible
\* chain and changes nothing else: every other frame, the other bindings of
\* the innermost frame and the global frame stay as they were.
C7_InnermostOnly ==
  [][lisp_set_assign =>
       LET k == heap[Top.args[1]].val
       IN  /\ globals' = globals
           /\ scopes' = scopes
           /\ Len(frames') = Len(frames)
           /\ \A fr \in 1..Len(frames) :
                fr # scopes[1] => frames'[fr] = frames[fr]
           /\ DOMAIN frames'[scopes[1]] = DOMAIN frames[scopes[1]] \cup {k}
           /\ frames'[scopes[1]][k] = ret
           /\ \A n \in DOMAIN frames[scopes[1]] :
                n # k => frames'[scopes[1]][n] = frames[scopes[1]][n]]_vars

C7_Witness ==
  /\ prog = "inner_set"
  /\ Running("eval", "exit", "ret")
  /\ Len(scopes) = 2
  /\ "n" \in DOMAIN frames[scopes[1]]
  /\ "n" \in DOMAIN frames[scopes[2]]
  /\ frames[scopes[1]]["n"] = ret
  /\ frames[scopes[2]]["n"] # ret

Min(S) == CHOOSE m \in S : \A n \in S : m <= n

\* C8: a Symbol evaluates to the binding of its name in the innermost frame
\* of the visible chain that binds it, to the global binding when no frame of
\* the chain binds it, and raises the name error exactly when neither does.
C8_SymbolLookup ==
  [][LispSymbol_eval =>
       LET k == heap[Top.x].val
           binders == {i \in 1..Len(scopes) : k \in DOMAIN frames[scopes[i]]}
       IN  IF binders # {}
             THEN mode' = "ret" /\ ret' = frames[scopes[Min(binders)]][k]
             ELSE IF k \in DOMAIN globals
               THEN mode' = "ret" /\ ret' = globals[k]
               ELSE /\ mode' = "exc"
                    /\ err' = LispError("nonexistent variable")]_vars

C8_Witness ==
  /\ Running("eval", "exit", "ret")
  /\ heap[Top.x].kind = "sym"
  /\ Len(scopes) = 2
  /\ heap[Top.x].val \in DOMAIN frames[scopes[1]]
  /\ heap[Top.x].val \in DOMAIN frames[scopes[2]]
  /\ ret = frames[scopes[1]][heap[Top.x].val]
  /\ ret # frames[scopes[2]][heap[Top.x].val]

\* C9: a closure called with a number of arguments other than its number of
\* parameters raises the argument-count error naming it; the body is not
\* evaluated, no frame is made, nothing is bound and the chain stays.
C9_ArgCount ==
  /\ [][(LispFunc_call /\ Len(Top.args) # Len(heap[Top.f].pars)) =>
          /\ mode' = "exc"
          /\ err' = ArgCountError(heap[Top.f].name)
          /\ stack' = stack
          /\ UNCHANGED << frames, scopes, steps, depth, heap >>]_vars
  /\ [](Ended("wrong_count") => err = ArgCountError("anonymous function"))

C9_Witness ==
  /\ Running("LispFunc", "enter", "exc")
  /\ err = ArgCountError(heap[Top.f].name)
  /\ Len(Top.args) < Len(heap[Top.f].pars)
  /\ Top.log = <<>>

\* The expressions a call of lisp_if passes to env.eval, in order: the
\* condition, then the one branch its value selects.
IfEvals(r) ==
  << r.args[1],
     IF Truthy(heap[r.vals[1]]) THEN r.args[2] ELSE r.args[3] >>

\* C10: a call of lisp_if that returns has passed to env.eval its condition,
\* once, and then the one branch the truthiness of the condition's value
\* selects, and returns that branch's value; at no time has a call of lisp_if
\* passed anything else to env.eval.
C10_IfOneBranch ==
  /\ [][(tail_return /\ Top.fn = "lisp_if") =>
          /\ Top.log = IfEvals(Top)
          /\ ret' = ret]_vars
  /\ [](\A i \in 1..Len(stack) :
          stack[i].fn = "lisp_if" =>
            \/ stack[i].log = <<>>
            \/ stack[i].log = << stack[i].args[1] >>
            \/ stack[i].log = IfEvals(stack[i]))
  /\ [](Ended("if_both") => (ret # 0 /\ heap[ret].val = "a"))

C10_Witness ==
  /\ Running("lisp_if", "tail", "ret")
  /\ ~Truthy(heap[Top.vals[1]])
  /\ Top.log = << Top.args[1], Top.args[3] >>
  /\ heap[ret].val = "a"

\* The call the top call has just made, and the top call as that step left it.
Callee == stack'[Len(stack')]

Caller == stack'[Len(stack)]

\* The step makes the top call invoke the callable f on args.
Invokes(f, args) ==
  /\ Len(stack') = Len(stack) + 1
  /\ mode' = "exec"
  /\ Callee.fn # "eval"
  /\ Callee.f = f
  /\ Callee.args = args

\* The step makes the top call pass e to env.eval.
Evals(e) ==
  /\ Len(stack') = Len(stack) + 1
  /\ mode' = "exec"
  /\ Callee.fn = "eval"
  /\ Callee.x = e
  /\ Caller.log = Append(Top.log, e)

Uncallable == LispError("non-callable value in application")

\* C11: the evaluation of a non-empty list passes its head to env.eval first,
\* once; a head whose value is neither a LispFunc nor a LispBuiltin raises the
\* non-callable error with no other element evaluated; a quoting builtin is
\* invoked on the other elements as they are, none evaluated; any other
\* callable is invoked only after each other element was passed to env.eval
\* once, in list order, and on the values these calls returned.
C11_Application ==
  /\ [][(LispList_eval /\ heap[Top.x].elems # <<>>) =>
          (Top.log = <<>> /\ Evals(heap[Top.x].elems[1]))]_vars
  /\ [][LispList_head =>
          LET es == heap[Top.x].elems
          IN  /\ Top.log = << es[1] >>
              /\ IF heap[ret].kind \notin {"func", "builtin"}
                   THEN mode' = "exc" /\ err' = Uncallable /\ stack' = stack
                   ELSE IF heap[ret].kind = "builtin" /\ heap[ret].quotes
                     THEN Invokes(ret, Tail(es)) /\ Caller.log = << es[1] >>
                     ELSE IF Len(es) = 1
                       THEN Invokes(ret, <<>>) /\ Caller.log = es
                       ELSE Evals(es[2]) /\ Caller.vals = <<>>]_vars
  /\ [][LispList_arg =>
          LET es == heap[Top.x].elems
              k == Len(Top.log)
          IN  /\ Top.log = SubSeq(es, 1, k)
              /\ Len(Top.vals) = k - 2
              /\ IF k < Len(es)
                   THEN Evals(es[k + 1]) /\ Caller.vals = Append(Top.vals, ret)
                   ELSE /\ Invokes(Top.f, Append(Top.vals, ret))
                        /\ Caller.log = es]_vars
  /\ [](\A i \in 1..Len(stack) :
          (stack[i].fn = "eval" /\ heap[stack[i].x].kind = "list") =>
            stack[i].log = SubSeq(heap[stack[i].x].elems, 1, Len(stack[i].log)))

C11_Witness ==
  /\ Running("eval", "head", "exc")
  /\ prog = "cons_n"
  /\ err = Uncallable
  /\ Len(heap[Top.x].elems) = 2
  /\ Top.log = << heap[Top.x].elems[1] >>
  /\ \E o \in things : heap[o].kind = "list" /\ Len(heap[o].elems) = 1

\* The builtin quote.
Quote == CHOOSE o \in 1..Len(built_ins) : built_ins[o].name = "quote"

\* No object changes once it is made.
ObjectsKept == \A o \in 1..Len(heap) : heap'[o] = heap[o]

\* C12: quote applied to one argument returns that argument, the same object,
\* and changes neither an object nor a binding nor a counter; the evaluation
\* of (quote x) returns x after two accepted eval calls, the one of the
\* application and the one of its head, whatever x holds.
C12_QuoteUnevaluated ==
  /\ [][(lisp_quote /\ Len(Top.args) = 1) =>
          /\ mode' = "ret"
          /\ ret' = Top.args[1]
          /\ ObjectsKept
          /\ UNCHANGED << frames, scopes, steps, depth >>]_vars
  /\ [][(LispList_head /\ ret = Quote /\ Len(heap[Top.x].elems) = 2) =>
          /\ Invokes(Quote, << heap[Top.x].elems[2] >>)
          /\ Callee.fn = "lisp_quote"]_vars
  /\ [][(eval_exit /\ Top.f = Quote) =>
          /\ ret' = heap[Top.x].elems[2]
          /\ Top.log = << heap[Top.x].elems[1] >>
          /\ steps = Top.steps_in + 2
          /\ depth' = Top.depth_in]_vars

C12_Witness ==
  /\ Running("eval", "exit", "ret")
  /\ Top.f = Quote
  /\ ret = heap[Top.x].elems[2]
  /\ heap[ret].kind = "list"
  /\ \E i \in 1..Len(heap[ret].elems) :
       /\ heap[heap[ret].elems[i]].kind = "sym"
       /\ ~Contains(heap[heap[ret].elems[i]].val)
  /\ steps = Top.steps_in + 2

\* The values a chain of frames makes visible: for each name, its binding in
\* the innermost frame that binds it.
VisibleValues(maps) ==
  {frames[maps[Min({i \in 1..Len(maps) : k \in DOMAIN frames[maps[i]]})]][k] :
     k \in UNION {DOMAIN frames[maps[i]] : i \in 1..Len(maps)}}

\* The children of an object: the elements of a list; the body of a closure
\* and the values its captured chain makes visible.
KidsOf(o) ==
  CASE heap[o].kind = "list" -> Range(heap[o].elems)
    [] heap[o].kind = "func" ->
         {heap[o].body} \cup VisibleValues(heap[o].clos)
    [] OTHER -> {}

\* S and everything reachable from it through children.
RECURSIVE Below(_)
Below(S) ==
  LET N == S \cup UNION {KidsOf(o) : o \in S}
  IN  IF N = S THEN S ELSE Below(N)

ConsTypeError == LispError("second argument to cons not a list")

\* C14: cons applied to h and a list t returns a list made by this call whose
\* elements are h and then the elements of t in their order, and adds it to
\* the tracker, or raises the resource-limit error when the tracker is full;
\* no object made before, t among them, changes; applied to h and a value
\* that is not a list it raises the error naming the second argument.
C14_Cons ==
  [][(lisp_cons /\ Len(Top.args) = 2) =>
       LET h == Top.args[1]
           t == Top.args[2]
           new == Len(heap) + 1
       IN  /\ ObjectsKept
           /\ IF heap[t].kind # "list"
                THEN /\ mode' = "exc"
                     /\ err' = ConsTypeError
                     /\ things' = things
                ELSE IF Cardinality(things) >= max_things
                  THEN mode' = "exc" /\ err' = ThingLimit /\ things' = things
                  ELSE /\ mode' = "ret"
                       /\ ret' = new
                       /\ Len(heap') = new
                       /\ heap'[new].kind = "list"
                       /\ heap'[new].elems = << h >> \o heap[t].elems
                       /\ things' = things \cup {new}]_vars

C14_Witness ==
  /\ Running("lisp_apply", "tail", "ret")
  /\ ret = Len(heap)
  /\ ret \in things
  /\ heap[ret].kind = "list"
  /\ LET xs == heap[Top.args[2]].elems
     IN  /\ Len(heap[xs[2]].elems) = 2
         /\ heap[ret].elems = << xs[1] >> \o heap[xs[2]].elems
         /\ [i \in 1..3 |-> heap[heap[ret].elems[i]].val] = << "a", "b", "c" >>

\* C15: once a run on a context has ended with a resource-limit error, every
\* later run on it ends with a resource-limit error too; and no step changes
\* max_things, max_depth or max_steps.
C15_PermanentlyFailed ==
  /\ []((mode = "idle" /\ limited) => err.cls = "LimitationError")
  /\ [][UNCHANGED ctx_limits]_vars

\* C16: when the loader has returned, every value reachable from a binding of
\* a frame of the loaded chain, a binding an inner frame shadows included, is
\* in the tracker of the loaded session.
C16_LoadRegistersAll ==
  (mode = "loaded" /\ err = NoErr) =>
    Reach(Bound(Range(scopes))) \subseteq things

\* The step is an eval call that passes both limit tests.
Accepted == eval_enter /\ depth < max_depth /\ steps < max_steps

\* C17: no step lowers steps; a step changes steps exactly when it is an eval
\* call that passes both limit tests, and then by one; the count stays when
\* the call later returns or raises, so steps is above its value at the call
\* for every accepted call in progress.
C17_StepsMonotonic ==
  /\ [][steps' >= steps]_vars
  /\ [][Accepted => steps' = steps + 1]_vars
  /\ [][steps' # steps => Accepted]_vars
  /\ [](\A i \in 1..Len(stack) :
          (stack[i].fn = "eval" /\ stack[i].pc # "enter") =>
            steps > stack[i].steps_in)

C17_Witness ==
  /\ Running("eval", "body", "exc")
  /\ err = LispError("nonexistent variable")
  /\ steps = Top.steps_in + 1
  /\ runs = 2
  /\ Top.steps_in > 0

\* C18: a call of eval that returns a value leaves depth at the value it had
\* when the call was made; after a run on a fresh context has returned a
\* value, depth is 0.
C18_DepthRestored ==
  /\ [][eval_exit => depth' = Top.depth_in]_vars
  /\ []((mode = "idle" /\ runs = 1 /\ ret # 0) => depth = 0)

C18_Witness ==
  /\ mode = "idle"
  /\ runs = 1
  /\ ret # 0
  /\ depth = 0
  /\ steps > 0

\* The closure calls in progress whose body is being evaluated.
BodyCalls ==
  {i \in 1..Len(stack) : stack[i].fn = "LispFunc" /\ stack[i].pc = "body"}

\* The chain of the innermost of them: its argument frame, then the frames
\* its closure captured.
BodyChain ==
  << stack[Max(BodyCalls)].arg_scope >> \o heap[stack[Max(BodyCalls)].f].clos

\* C19: a closure call with the right number of arguments makes one new
\* frame that binds each parameter to the argument at its position and
\* evaluates the body with that frame in front of the captured frames as the
\* visible chain; while a body is evaluated the visible chain is that chain,
\* and a symbol resolves in its innermost frame binding it, else in the
\* globals.  (lambda () n), made where n is x and called from a frame where n
\* is d, returns x, and ((lambda (x) x) (quote z)) returns z.
C19_LexicalScope ==
  /\ [][(LispFunc_call /\ Len(Top.args) = Len(heap[Top.f].pars)) =>
          LET f == heap[Top.f]
              new == Len(frames) + 1
          IN  /\ Len(frames') = new
              /\ DOMAIN frames'[new] = Range(f.pars)
              /\ \A i \in 1..Len(f.pars) : frames'[new][f.pars[i]] = Top.args[i]
              /\ scopes' = << new >> \o f.clos
              /\ Evals(f.body)]_vars
  /\ []((mode \in {"exec", "ret"} /\ BodyCalls # {}) => scopes = BodyChain)
  /\ [][(LispSymbol_eval /\ BodyCalls # {} /\ mode' = "ret") =>
          LET k == heap[Top.x].val
              binders == {i \in 1..Len(BodyChain) :
                            k \in DOMAIN frames[BodyChain[i]]}
          IN  ret' = IF binders = {} THEN globals[k]
                     ELSE frames[BodyChain[Min(binders)]][k]]_vars
  /\ []((Running("lisp_progn", "enter", "exec") /\ prog = "closures") =>
          heap[Top.args[2]].val = "x")
  /\ [](Ended("closures") => (ret # 0 /\ heap[ret].val = "z"))

C19_Witness ==
  /\ Running("eval", "exit", "ret")
  /\ BodyCalls # {}
  /\ heap[Top.x].val = "n"
  /\ heap[ret].val = "x"
  /\ LET caller == stack[Max(BodyCalls)].old_scopes[1]
     IN  /\ caller \notin Range(scopes)
         /\ "n" \in DOMAIN frames[caller]
         /\ heap[frames[caller]["n"]].val = "d"

\* The argument frames of the closure calls in progress.
ArgFramesInUse == {stack[i].arg_scope : i \in BodyCalls}

\* C20: a closure made while a closure call evaluates its body captures the
\* argument frame of that call in front of the frames the called closure had
\* captured; no closure's chain changes afterwards, and no frame is dropped
\* or loses a binding, whether or not the call that made it is still in
\* progress; an assignment to a name changes the one dict every chain that
\* holds the frame sees.  The closure (lambda () n) made by the call of
\* (lambda (n) (lambda () n)) on x returns x when called after that call has
\* returned.
C20_FrameOutlivesCall ==
  /\ [][(lisp_lambda /\ heap' # heap /\ BodyCalls # {}) =>
          heap'[Len(heap')].clos = BodyChain]_vars
  /\ [][/\ ObjectsKept
        /\ Len(frames') >= Len(frames)
        /\ \A fr \in 1..Len(frames) :
             /\ DOMAIN frames[fr] \subseteq DOMAIN frames'[fr]
             /\ \A k \in DOMAIN frames[fr] :
                  frames'[fr][k] # frames[fr][k] =>
                    (lisp_set_assign /\ fr = scopes[1]
                       /\ k = heap[Top.args[1]].val)]_vars
  /\ [][(LispFunc_return /\ prog = "closures" /\ heap[Top.f].pars = <<>>) =>
          heap[ret].val = "x"]_vars

C20_Witness ==
  /\ Running("LispFunc", "body", "ret")
  /\ heap[Top.f].pars = <<>>
  /\ Len(heap[Top.f].clos) >= 2
  /\ heap[Top.f].clos[1] \notin ArgFramesInUse
  /\ heap[Top.f].clos[1] \notin Range(Top.old_scopes)
  /\ ret = frames[heap[Top.f].clos[1]]["n"]
  /\ heap[ret].val = "x"

\* The value the name k has through the chain maps, else in the globals.
Resolved(maps, k) ==
  LET binders == {i \in 1..Len(maps) : k \in DOMAIN frames[maps[i]]}
  IN  IF binders = {} THEN globals[k] ELSE frames[maps[Min(binders)]][k]

\* C21: eval applied to one argument passes the value of that argument to
\* env.eval and changes neither the visible chain nor a frame; inside a
\* closure body the chain it evaluates in is the argument frame of the call
\* followed by the frames the closure captured, and for a Symbol it returns
\* the binding that chain, else the globals, gives the name.  The closure
\* (lambda (v) (eval v)), made in a frame where x was set to z and called with
\* the Symbol x, returns z, and so does the run of cl_eval_test.
C21_EvalInScope ==
  /\ [][(lisp_eval /\ Len(Top.args) = 1) =>
          /\ Evals(Top.args[1])
          /\ UNCHANGED << scopes, frames >>
          /\ (BodyCalls # {} => scopes = BodyChain)]_vars
  /\ [][(tail_return /\ Top.fn = "lisp_eval"
            /\ heap[Top.args[1]].kind = "sym") =>
          /\ ret' = Resolved(scopes, heap[Top.args[1]].val)
          /\ (BodyCalls # {} =>
                ret' = Resolved(BodyChain, heap[Top.args[1]].val))]_vars
  /\ [][(LispFunc_return /\ prog = "cl_eval_test"
            /\ heap[Top.f].pars = << "v" >>) =>
          (heap[Top.args[1]].val = "x" /\ heap[ret].val = "z")]_vars
  /\ [](Ended("cl_eval_test") => (ret # 0 /\ heap[ret].val = "z"))

C21_Witness ==
  /\ Running("lisp_eval", "tail", "ret")
  /\ heap[Top.args[1]].val = "x"
  /\ heap[ret].val = "z"
  /\ BodyCalls # {}
  /\ scopes = BodyChain
  /\ "x" \notin DOMAIN frames[scopes[1]]
  /\ "x" \in DOMAIN frames[scopes[2]]
  /\ "x" \notin DOMAIN frames[scopes[Len(scopes)]]

ApplyTypeError == LispError("second argument to apply not a list")

\* The call that called the top call.
Below1 == stack[Len(stack) - 1]

\* C22: apply given f and xs raises the non-callable error when f is neither
\* a LispFunc nor a LispBuiltin, the error naming the second argument when xs
\* is not a list, in both cases with no call made; otherwise it invokes f on
\* the elements of xs as they are, passes nothing to env.eval itself, and
\* returns what f returns.  A closure that apply invokes binds its parameters
\* to the elements themselves: (apply (lambda (v) v) (apply quote (quote ((y)))))
\* returns the Symbol y, which no frame binds.
C22_Apply ==
  /\ [][(lisp_apply /\ Len(Top.args) = 2) =>
          LET f == Top.args[1]
              xs == Top.args[2]
          IN  IF heap[f].kind \notin {"func", "builtin"}
                THEN mode' = "exc" /\ err' = Uncallable /\ stack' = stack
                ELSE IF heap[xs].kind # "list"
                  THEN /\ mode' = "exc"
                       /\ err' = ApplyTypeError
                       /\ stack' = stack
                  ELSE /\ Invokes(f, heap[xs].elems)
                       /\ Caller.log = <<>>]_vars
  /\ [](\A i \in 1..Len(stack) :
          stack[i].fn = "lisp_apply" => stack[i].log = <<>>)
  /\ [][(LispFunc_call /\ Len(stack) > 1 /\ Below1.fn = "lisp_apply"
            /\ mode' = "exec") =>
          LET xs == heap[Below1.args[2]].elems
              pars == heap[Top.f].pars
          IN  \A i \in 1..Len(pars) :
                frames'[Len(frames')][pars[i]] = xs[i]]_vars
  /\ [][(tail_return /\ Top.fn = "lisp_apply") => ret' = ret]_vars
  /\ [](Ended("apply_ok") =>
          (ret # 0 /\ heap[ret].kind = "sym" /\ heap[ret].val = "y"))

C22_Witness ==
  /\ Running("lisp_apply", "tail", "ret")
  /\ heap[Top.args[1]].kind = "func"
  /\ ret = heap[Top.args[2]].elems[1]
  /\ heap[ret].kind = "sym"
  /\ ~Contains(heap[ret].val)

\* The run in progress is registering its expression.
Registering == stack # <<>> /\ stack[1].fn = "run" /\ stack[1].pc = "rec_new"

\* C23: run registers before it evaluates: while rec_new(expr) is in progress
\* no call of eval is, and steps and depth have the values they had when run
\* was called; eval(expr) is called, once, when rec_new has returned expr
\* with expr and everything below it in the tracker; a registration that
\* raises the resource-limit error ends the run with no eval call made and
\* both counters as they were; a run that returns gives the host the value
\* its one call eval(expr) returned, together with the tracker.
C23_RunRegistersFirst ==
  /\ [](Registering =>
          /\ \A i \in 1..Len(stack) : stack[i].fn # "eval"
          /\ stack[1].log = <<>>
          /\ steps = stack[1].steps_in
          /\ depth = stack[1].depth_in)
  /\ [][run_eval =>
          /\ ret = Top.x
          /\ Below({Top.x}) \subseteq things
          /\ Evals(Top.x)
          /\ UNCHANGED << things, steps, depth >>]_vars
  /\ [][(unwind /\ Registering /\ Len(stack) = 1
            /\ err.cls = "LimitationError") =>
          /\ err = ThingLimit
          /\ mode' = "idle"
          /\ returned' = << >>
          /\ steps' = Top.steps_in
          /\ depth' = Top.depth_in]_vars
  /\ [][(eval_exit /\ Len(stack) = 2 /\ stack[1].fn = "run") =>
          (Top.x = stack[1].x /\ ret' = ret)]_vars
  /\ [][run_return =>
          /\ Top.log = << Top.x >>
          /\ returned' = << ret, things >>
          /\ UNCHANGED << ret, things >>]_vars

C23_Witness ==
  /\ Registering
  /\ Len(stack) = 1
  /\ mode = "exc"
  /\ err = ThingLimit
  /\ runs = 2
  /\ steps > 0
  /\ steps = Top.steps_in
  /\ depth = Top.depth_in

\* The calls of eval in progress that have passed the two limit tests.
EvalsInProgress ==
  Cardinality({i \in 1..Len(stack) :
                 stack[i].fn = "eval" /\ stack[i].pc # "enter"})

\* C24: depth is the number of eval calls in progress; when an exception
\* leaves a call of eval, depth is what it was when the call was made; after
\* a run has ended, with a value or with an error, depth is what it was
\* before the run, 0 on a fresh context.
C24_DepthIsNesting ==
  /\ [](depth = EvalsInProgress)
  /\ [][(unwind /\ Top.fn = "eval") => depth' = Top.depth_in]_vars
  /\ []((mode = "idle" /\ runs = 1) => depth = 0)

\* A call of rec_new in progress was made, directly or not, by a call of
\* rec_new on the same value: the recursion has no end of its own.
RecNewReenters ==
  \E i, j \in 1..Len(stack) :
    /\ i < j
    /\ stack[i].fn = "rec_new"
    /\ stack[j].fn = "rec_new"
    /\ stack[i].x = stack[j].x

\* C25: rec_new ends of its own: no call of rec_new is made while the same
\* value is being registered, and none is ended by the recursion limit of the
\* host language.
C25_RecNewTerminates ==
  /\ ~RecNewReenters
  /\ err # HostRecursionError

====
